---- MODULE Spec2Model ----
(***************************************************************************)
(* State machine of the jigsaw puzzle page (src/script.js): the board of   *)
(* tiles, shuffle generation, drag-and-drop swaps, solved detection, join  *)
(* flags, undo/redo history, localStorage persistence and the three-level  *)
(* progression.                                                            *)
(*                                                                         *)
(* Scaling.  The page has N = 10 (100 tiles) and HISTORY_LIMIT = 200.  The *)
(* model keeps every formula of the code parametric in N and HISTORY_LIMIT *)
(* and explores it with N and HISTORY_LIMIT as bounds of the exploration:  *)
(* a board of N x N tiles and stacks of at most HISTORY_LIMIT snapshots.   *)
(*                                                                         *)
(* Left out: elapsed milliseconds of the timer (only timerRunning is       *)
(* kept), CSS classes other than the join flags, animations, and the       *)
(* migration of the legacy single-board storage format, which no storage   *)
(* written by this code can trigger.                                       *)
(*                                                                         *)
(* Every event handler, and the callback of the hold timer, is one action: *)
(* the events of a drag gesture (dragstart, drop, dragend; touchstart, the *)
(* hold timer, touchmove, touchend, touchcancel) are separate tasks, and   *)
(* any other handler may run between two of them.                          *)
(***************************************************************************)
EXTENDS Integers, Sequences, FiniteSets, TLC

\* ---- bounds of the exploration ----
\* side of the board (10 in the page)
N == 2

total == N * N

\* snapshots kept on a stack (200 in the page)
HISTORY_LIMIT == 2

\* number of events handled in one behaviour: five reach a redo on a redo
\* stack of two entries (two recorded operations, two undos, the redo) and
\* a return from puzzle 3 (cheat, next, cheat, next, back)
MaxSteps == 5

\* a draw of the game's shuffles picks j in total-1-Spread .. total-1 at the
\* first index of the loop, total - 1, and j = i at the others
Spread == 1

\* a draw of the shuffle alone picks any j in 0..i at the first Mixed indices
\* of the loop, total - Mixed .. total - 1, and j = i at the others
Mixed == 2

\* ---- constants of the script ----
TOTAL_PUZZLES == 3

STORAGE_KEY == "puzzle-state-v1"

\* shuffleUntilNotSolved gives up once attempts exceeds this number
BAIL_ATTEMPTS == 5

Positions == 0 .. (total - 1)

\* ---- tile elements ----
\* A variable of the script refers to a tile element by the board that
\* created it and its position on that board: board 0 is the board in the
\* page, board k > 0 the one that createBoard() removed k calls ago.
Ref(board, pos) == [board |-> board, pos |-> pos]

\* null
NoTile == Ref(-1, -1)

\* the element tiles[pos]
Live(pos) == Ref(0, pos)

LiveTiles == {Live(pos) : pos \in Positions}

\* The one element of a singleton set.  The({e : v \in {x}}) is e with v
\* standing for the value of x, which is then computed once.
The(S) == CHOOSE x \in S : TRUE

Min(a, b) == IF a < b THEN a ELSE b

Max(a, b) == IF a > b THEN a ELSE b

\* the decimal strings of the piece indices
DecimalStrings == [n \in Positions |-> ToString(n)]

\* String(n) for a piece index or position, as stored in tile.dataset
StringOf(n) == DecimalStrings[n]

\* Number(str) of a dataset string written by StringOf
NumberOf(str) == CHOOSE n \in Positions : DecimalStrings[n] = str

\* [...Array(total).keys()]
pieceIndices == [i \in Positions |-> i]

\* ---- shuffle ----
\* One run of Math.random() per loop index of shuffleInPlace: draw[i] is
\* Math.floor(Math.random() * (i + 1)), a value in 0..i.
IdentityDraw == [i \in 1 .. (total - 1) |-> i]

\* the draws that pick j = i at every index below from: one choice of j in
\* 0 .. i for each index from from on
RECURSIVE DrawsFrom(_)
DrawsFrom(from) ==
  IF from > total - 1 THEN {IdentityDraw}
  ELSE {[d EXCEPT ![from] = j] : d \in DrawsFrom(from + 1), j \in 0 .. from}

RECURSIVE ShuffleFrom(_, _, _)
ShuffleFrom(arr, draw, i) ==
  IF i <= 0 THEN arr
  ELSE ShuffleFrom([arr EXCEPT ![i] = arr[draw[i]], ![draw[i]] = arr[i]], draw, i - 1)

shuffleInPlace(arr, draw) == ShuffleFrom(arr, draw, total - 1)

IsIdentity(arr) == \A i \in Positions : arr[i] = i

\* rnd is the sequence of draws consumed by successive attempts
RECURSIVE ShuffleLoop(_, _, _)
ShuffleLoop(shuffled, rnd, attempts) ==
  LET s == shuffleInPlace(shuffled, rnd[attempts + 1])
      a == attempts + 1
  IN IF a > BAIL_ATTEMPTS THEN s
     ELSE IF IsIdentity(s) THEN ShuffleLoop(s, rnd, a)
     ELSE s

\* (variant of shuffleUntilNotSolved) a single attempt, no retry
shuffleUntilNotSolved_once(indices, rnd) == shuffleInPlace(indices, rnd[1])

shuffleUntilNotSolved(indices, rnd) == ShuffleLoop(indices, rnd, 0)

\* Random streams.  Only the draws up to the first attempt that leaves the
\* array unsolved are consumed, so a stream is k identity-producing draws
\* followed by one arbitrary draw (the rest is padding).
StreamOf(k, d) == [a \in 1 .. (BAIL_ATTEMPTS + 1) |-> IF a <= k THEN IdentityDraw ELSE IF a = k + 1 THEN d ELSE IdentityDraw]

\* streams of the shuffle alone: any number of attempts in order, then a
\* draw that is arbitrary at the first Mixed indices of the loop
AllStreams ==
  {StreamOf(k, d) : k \in 0 .. BAIL_ATTEMPTS, d \in DrawsFrom(Max(1, total - Mixed))}

\* streams used while exploring the game: draws near the identity, first attempt
GameDraws ==
  {[IdentityDraw EXCEPT ![total - 1] = j] : j \in Max(0, total - 1 - Spread) .. (total - 1)}

GameStreams == {StreamOf(0, d) : d \in GameDraws}

\* streams that retry: any number of attempts in order, then a draw near the identity
RetryStreams == {StreamOf(k, d) : k \in 0 .. BAIL_ATTEMPTS, d \in GameDraws}

\* ---- tiles ----
NewTile(pos, pieceIndex) ==
  [piece |-> StringOf(pieceIndex), correct |-> StringOf(pos),
   joinTop |-> FALSE, joinRight |-> FALSE, joinBottom |-> FALSE, joinLeft |-> FALSE]

setTilePiece(tile, pieceIndex) == [tile EXCEPT !.piece = StringOf(pieceIndex)]

\* tiles.map(t => Number(t.dataset.piece))
PiecesOf(tiles) == The({[pos \in Positions |-> NumberOf(tl[pos].piece)] : tl \in {tiles}})
\* (variant of JoinRightAt) the last column of the image is not excluded
JoinRightAt_wrap(ps, pos) ==
  /\ pos % N < N - 1
  /\ LET p == ps[pos]
         rp == ps[pos + 1]
     IN rp = p + 1

\* ps is the array of the pieces shown, by position
JoinRightAt(ps, pos) ==
  /\ pos % N < N - 1
  /\ LET p == ps[pos]
         rp == ps[pos + 1]
     IN p % N # N - 1 /\ rp = p + 1

JoinBottomAt(ps, pos) ==
  /\ pos \div N < N - 1
  /\ LET p == ps[pos]
         bp == ps[pos + N]
     IN p \div N # N - 1 /\ bp = p + N

\* the join classes after the two loops of updateJoins: join-right and
\* join-bottom are set from the tile's own test, join-left and join-top by
\* the test of the left and of the upper neighbour
updateJoins(tiles) ==
  The({[pos \in Positions |->
          [tl[pos] EXCEPT
             !.joinRight = JoinRightAt(ps, pos),
             !.joinLeft = pos % N > 0 /\ JoinRightAt(ps, pos - 1),
             !.joinBottom = JoinBottomAt(ps, pos),
             !.joinTop = pos \div N > 0 /\ JoinBottomAt(ps, pos - N)]]
       : tl \in {tiles}, ps \in {PiecesOf(tiles)}})

\* (variant of isSolved) some tile in place is enough
isSolved_some(tiles) == \A tl \in {tiles} : \E pos \in Positions : tl[pos].piece = tl[pos].correct

isSolved(tiles) == \A tl \in {tiles} : \A pos \in Positions : tl[pos].piece = tl[pos].correct


\* ---- page state ----
\* A page is the record of the script's variables, the two checkboxes and
\* localStorage.  Handlers are operators from a page (and inputs) to a page.

\* the script's variables right after its declarations, before createBoard();
\* pv and ed are the checkbox values the browser hands to the new document
FreshPage(ls, pv, ed) ==
  [tiles |-> <<>>, undoStack |-> <<>>, redoStack |-> <<>>,
   timerRunning |-> FALSE, currentImage |-> 1,
   unlocked2 |-> FALSE, unlocked3 |-> FALSE, initialized |-> FALSE,
   previewChecked |-> pv, edgeChecked |-> ed,
   dragSrc |-> NoTile, touchOver |-> NoTile, holdTimer |-> NoTile, holdActive |-> FALSE,
   pendingTile |-> NoTile, detached |-> [r \in {} |-> 0],
   localStorage |-> ls]

startTimer(s) == [s EXCEPT !.timerRunning = TRUE]

pauseTimer(s) == [s EXCEPT !.timerRunning = FALSE]

\* resetTimer(start)
resetTimer(s, start) == IF start THEN startTimer([s EXCEPT !.timerRunning = FALSE])
                        ELSE [s EXCEPT !.timerRunning = FALSE]

\* ---- elements behind references ----
\* the elements the script's variables and the pending timer refer to
Held(s) == {s.dragSrc, s.touchOver, s.pendingTile, s.holdTimer} \ {NoTile}

\* the element ref refers to: a tile of the board, or a removed one
ElementAt(s, ref) == IF ref.board = 0 THEN s.tiles[ref.pos] ELSE s.detached[ref]

\* setTilePiece(ref, pieceIndex) on the page
WithPiece(s, ref, pieceIndex) ==
  IF ref.board = 0 THEN [s EXCEPT !.tiles[ref.pos] = setTilePiece(@, pieceIndex)]
  ELSE [s EXCEPT !.detached[ref] = setTilePiece(@, pieceIndex)]

\* swapTilePieces(a, b) on the elements a and b
swapTilePieces(s0, a, b) ==
  The({LET aPiece == NumberOf(ElementAt(s, a).piece)
           bPiece == NumberOf(ElementAt(s, b).piece)
           swapped == WithPiece(WithPiece(s, a, bPiece), b, aPiece)
       IN [swapped EXCEPT !.tiles = updateJoins(swapped.tiles)]
       : s \in {s0}})

\* the reference to an element once its board has been removed
Older(ref) == IF ref = NoTile THEN NoTile ELSE Ref(ref.board + 1, ref.pos)

\* board.innerHTML = ''; tiles.length = 0: the tiles leave the page; those a
\* variable or the pending timer refers to stay as they are behind it
clearBoard(s0) ==
  The({[s EXCEPT !.tiles = <<>>,
                 !.dragSrc = Older(@), !.touchOver = Older(@),
                 !.pendingTile = Older(@), !.holdTimer = Older(@),
                 !.detached = [r \in {Older(h) : h \in Held(s)} |->
                                 ElementAt(s, Ref(r.board - 1, r.pos))]]
       : s \in {s0}})

\* removed elements that nothing refers to any more are gone
Collect(s) == [s EXCEPT !.detached = [r \in (DOMAIN s.detached) \cap Held(s) |-> s.detached[r]]]

\* ---- persistence ----
EmptyStorage == [k \in {} |-> 0]

\* (variant of BoardKey) one key for every puzzle
BoardKey_fixed(image) == "1"

\* String(currentImage)
BoardKey(image) == ToString(image)

HasState(ls) == STORAGE_KEY \in DOMAIN ls

\* loadState() when HasState
loadState(ls) == ls[STORAGE_KEY]

\* localStorage.setItem(STORAGE_KEY, JSON.stringify(state))
setItem(ls, state) == [k \in DOMAIN ls \cup {STORAGE_KEY} |-> IF k = STORAGE_KEY THEN state ELSE ls[k]]

\* existing.boards, or {} when there is no stored state
ExistingBoards(ls) == IF HasState(ls) THEN loadState(ls).boards ELSE EmptyStorage

PutBoard(boards, key, b) == [k \in DOMAIN boards \cup {key} |-> IF k = key THEN b ELSE boards[k]]

DeleteBoards(boards, keys) == [k \in DOMAIN boards \ keys |-> boards[k]]

\* (variant of saveState) the preview toggle is not stored
saveState_noPreview(s0) ==
  The({LET boards == PutBoard(ExistingBoards(s.localStorage), BoardKey(s.currentImage),
                              [pieces |-> PiecesOf(s.tiles), preview |-> FALSE,
                               edges |-> s.edgeChecked, tRunning |-> s.timerRunning])
           state == [n |-> N, image |-> s.currentImage,
                     unlocked2 |-> s.unlocked2, unlocked3 |-> s.unlocked3,
                     boards |-> boards, running |-> s.timerRunning]
       IN [s EXCEPT !.localStorage = setItem(s.localStorage, state)]
       : s \in {s0}})
\* (variant of saveState) unlocked2 is not stored
saveState_noUnlock2(s0) ==
  The({LET boards == PutBoard(ExistingBoards(s.localStorage), BoardKey(s.currentImage),
                              [pieces |-> PiecesOf(s.tiles), preview |-> s.previewChecked,
                               edges |-> s.edgeChecked, tRunning |-> s.timerRunning])
           state == [n |-> N, image |-> s.currentImage,
                     unlocked2 |-> FALSE, unlocked3 |-> s.unlocked3,
                     boards |-> boards, running |-> s.timerRunning]
       IN [s EXCEPT !.localStorage = setItem(s.localStorage, state)]
       : s \in {s0}})

saveState(s0) ==
  The({LET pieces == PiecesOf(s.tiles)
           boards == PutBoard(ExistingBoards(s.localStorage), BoardKey(s.currentImage),
                              [pieces |-> pieces, preview |-> s.previewChecked,
                               edges |-> s.edgeChecked, tRunning |-> s.timerRunning])
           state == [n |-> N, image |-> s.currentImage,
                     unlocked2 |-> s.unlocked2, unlocked3 |-> s.unlocked3,
                     boards |-> boards, running |-> s.timerRunning]
       IN [s EXCEPT !.localStorage = setItem(s.localStorage, state)]
       : s \in {s0}})

\* ---- undo / redo ----
getSnapshot(s0) ==
  The({[pieces |-> PiecesOf(s.tiles), preview |-> s.previewChecked,
        edges |-> s.edgeChecked, running |-> s.timerRunning] : s \in {s0}})

applySnapshot(s0, snap0) ==
  The({IF Cardinality(DOMAIN snap.pieces) # total THEN s
       ELSE saveState([s EXCEPT
                         !.tiles = updateJoins([pos \in Positions |->
                                                  setTilePiece(s.tiles[pos], snap.pieces[pos])]),
                         !.previewChecked = snap.preview,
                         !.edgeChecked = snap.edges,
                         !.timerRunning = snap.running])
       : s \in {s0}, snap \in {snap0}})
\* (variant of PushCapped) nothing is shifted out
PushCapped_noCap(stack, snap) == Append(stack, snap)

\* push with the HISTORY_LIMIT cap: the oldest entry is shifted out
PushCapped(stack, snap) ==
  The({IF Len(pushed) > HISTORY_LIMIT THEN Tail(pushed) ELSE pushed
       : pushed \in {Append(stack, snap)}})

\* stack.pop(): the stack without its last entry
Popped(stack) == SubSeq(stack, 1, Len(stack) - 1)

\* (variant of pushUndo) the redo stack is kept
pushUndo_keepRedo(s0, snap) ==
  The({[s EXCEPT !.undoStack = PushCapped(s.undoStack, snap)] : s \in {s0}})

pushUndo(s0, snap) ==
  The({[s EXCEPT !.undoStack = PushCapped(s.undoStack, snap), !.redoStack = <<>>] : s \in {s0}})

doUndo(s0) ==
  The({IF Len(s.undoStack) = 0 THEN s
       ELSE LET current == getSnapshot(s)
                prev == s.undoStack[Len(s.undoStack)]
            IN applySnapshot([s EXCEPT !.undoStack = Popped(s.undoStack),
                                       !.redoStack = PushCapped(s.redoStack, current)],
                             prev)
       : s \in {s0}})

\* (variant of doRedo) the redo stack is emptied, as pushUndo empties it
doRedo_clearRedo(s0) ==
  The({IF Len(s.redoStack) = 0 THEN s
       ELSE LET current == getSnapshot(s)
                next == s.redoStack[Len(s.redoStack)]
            IN applySnapshot([s EXCEPT !.redoStack = <<>>,
                                       !.undoStack = PushCapped(s.undoStack, current)],
                             next)
       : s \in {s0}})

\* (variant of doRedo) the current snapshot is not pushed onto the undo stack
doRedo_noPush(s0) ==
  The({IF Len(s.redoStack) = 0 THEN s
       ELSE applySnapshot([s EXCEPT !.redoStack = Popped(s.redoStack)],
                          s.redoStack[Len(s.redoStack)])
       : s \in {s0}})

doRedo(s0) ==
  The({IF Len(s.redoStack) = 0 THEN s
       ELSE LET current == getSnapshot(s)
                next == s.redoStack[Len(s.redoStack)]
            IN applySnapshot([s EXCEPT !.redoStack = Popped(s.redoStack),
                                       !.undoStack = PushCapped(s.undoStack, current)],
                             next)
       : s \in {s0}})

\* ---- createBoard ----
\* Math.max(1, Math.min(TOTAL_PUZZLES, Number(saved.image) || 1))
ClampImage(image) == Max(1, Min(TOTAL_PUZZLES, IF image = 0 THEN 1 ELSE image))

\* !!saved.unlocked3: a stored state without the field reads as false
SavedFlag(saved, field) == IF field \in DOMAIN saved THEN saved[field] ELSE FALSE

createBoard(s0, rnd) ==
  The({LET has == HasState(s.localStorage) /\ loadState(s.localStorage).n = N
           saved == loadState(s.localStorage)
           image == IF has /\ ~s.initialized THEN ClampImage(saved.image) ELSE s.currentImage
           key == BoardKey(image)
           hasBoard == has /\ key \in DOMAIN saved.boards
                           /\ "pieces" \in DOMAIN saved.boards[key]
                           /\ Cardinality(DOMAIN saved.boards[key].pieces) = total
           boardState == saved.boards[key]
           \* the timer is restored from any stored board of the puzzle, from
           \* its tRunning (kept here for the pair tElapsedMs, tRunning) or,
           \* on a board without one, from the legacy saved.running
           boardTimer == has /\ key \in DOMAIN saved.boards
           initialPieces == IF hasBoard THEN boardState.pieces
                            ELSE shuffleUntilNotSolved(pieceIndices, rnd)
       IN [saveState(
             [s EXCEPT
                !.currentImage = image,
                !.unlocked2 = IF has THEN SavedFlag(saved, "unlocked2") ELSE @,
                !.unlocked3 = IF has THEN SavedFlag(saved, "unlocked3") ELSE @,
                !.previewChecked = IF hasBoard THEN boardState.preview
                                   ELSE IF has THEN FALSE ELSE @,
                !.edgeChecked = IF hasBoard THEN boardState.edges
                                ELSE IF has THEN FALSE ELSE @,
                !.timerRunning = IF ~boardTimer THEN FALSE
                                 ELSE IF "tRunning" \in DOMAIN boardState
                                   THEN boardState.tRunning
                                 ELSE SavedFlag(saved, "running"),
                !.tiles = The({updateJoins([pos \in Positions |-> NewTile(pos, ip[pos])])
                               : ip \in {initialPieces}})])
           EXCEPT !.initialized = TRUE]
       : s \in {clearBoard(s0)}})

\* ---- drag and drop ----
\* (variant of UnlockNext) only puzzle 2 is ever unlocked
UnlockNext_onlySecond(s0) ==
  The({IF s.currentImage = 1 /\ ~s.unlocked2 THEN [s EXCEPT !.unlocked2 = TRUE]
       ELSE s
       : s \in {s0}})

\* the unlock of the next puzzle when the current one is found solved
UnlockNext(s0) ==
  The({IF s.currentImage = 1 /\ ~s.unlocked2 THEN [s EXCEPT !.unlocked2 = TRUE]
       ELSE IF s.currentImage = 2 /\ ~s.unlocked3 THEN [s EXCEPT !.unlocked3 = TRUE]
       ELSE s
       : s \in {s0}})

\* lines 598-620 of onDrop, repeated as lines 764-785 of endTouchDrag
AfterSwap(s0) ==
  The({IF isSolved(s.tiles) THEN saveState(pauseTimer(UnlockNext(s)))
       ELSE IF ~s.timerRunning THEN saveState(startTimer(s))
       ELSE saveState(s)
       : s \in {[s0 EXCEPT !.tiles = updateJoins(s0.tiles)]}})

\* dragstart on the tile this
onDragStart(s, this) == [s EXCEPT !.dragSrc = this]

\* drop on the tile this
onDrop(s0, this) ==
  The({IF s.dragSrc = NoTile \/ s.dragSrc = this THEN s
       ELSE AfterSwap([swapTilePieces(pushUndo(s, getSnapshot(s)), s.dragSrc, this)
                       EXCEPT !.dragSrc = NoTile])
       : s \in {s0}})

onDragEnd(s) == [s EXCEPT !.dragSrc = NoTile]

beginTouchDrag(s, tile) == [s EXCEPT !.dragSrc = tile, !.holdActive = TRUE]

endTouchDrag(s0, commitDrop) ==
  The({LET src == s.dragSrc
           dropTarget == IF commitDrop /\ s.touchOver # NoTile /\ s.touchOver # src
                         THEN s.touchOver ELSE NoTile
           cleared == [s EXCEPT !.holdTimer = NoTile, !.dragSrc = NoTile, !.holdActive = FALSE,
                                !.touchOver = NoTile, !.pendingTile = NoTile]
       IN IF dropTarget = NoTile \/ src = NoTile THEN cleared
          ELSE AfterSwap(swapTilePieces(pushUndo(cleared, getSnapshot(cleared)), src, dropTarget))
       : s \in {s0}})

\* touchstart; t is the tile touched, NoTile outside the tiles.  holdTimer
\* is the tile the pending timeout was set for, NoTile when none is pending.
onTouchStart(s, t) ==
  IF t = NoTile THEN s ELSE [s EXCEPT !.pendingTile = t, !.holdTimer = t]

\* the callback of holdTimer, HOLD_MS after the touchstart that set it
HoldTimerFires(s0) ==
  The({IF ~s.holdActive /\ s.pendingTile = s0.holdTimer THEN beginTouchDrag(s, s0.holdTimer) ELSE s
       : s \in {[s0 EXCEPT !.holdTimer = NoTile]}})

\* far: the finger is more than MOVE_THRESHOLD away from where it went down;
\* over: the tile under the finger, NoTile outside the tiles
onTouchMove(s0, far, over) ==
  The({IF ~s.holdActive /\ ~(far /\ s.pendingTile # NoTile) THEN s
       ELSE IF ~s.holdActive
         THEN [beginTouchDrag(s, s.pendingTile) EXCEPT !.holdTimer = NoTile, !.touchOver = over]
       ELSE [s EXCEPT !.touchOver = over]
       : s \in {s0}})

onTouchEnd(s0) ==
  The({IF s.holdActive THEN endTouchDrag(s, TRUE)
       ELSE [s EXCEPT !.holdTimer = NoTile, !.pendingTile = NoTile]
       : s \in {s0}})

onTouchCancel(s0) ==
  The({[(IF s.holdActive THEN endTouchDrag(s, FALSE) ELSE s)
        EXCEPT !.holdTimer = NoTile, !.pendingTile = NoTile]
       : s \in {s0}})

\* ---- controls ----
\* (variant of nextLocked) only the first step is locked
nextLocked_firstOnly(s) == s.currentImage = 1 /\ ~s.unlocked2

\* the locks of updateNavButtons and of the Next handler
nextLocked(s) == (s.currentImage = 1 /\ ~s.unlocked2) \/ (s.currentImage = 2 /\ ~s.unlocked3)
\* (variant of cheatClick) the timer is left as it is
cheatClick_noPause(s0) ==
  The({saveState(UnlockNext(
         [s EXCEPT !.tiles = updateJoins([pos \in Positions |-> setTilePiece(s.tiles[pos], pos)])]))
       : s \in {pushUndo(s0, getSnapshot(s0))}})

cheatClick(s0) ==
  The({saveState(pauseTimer(UnlockNext(
         [s EXCEPT !.tiles = updateJoins([pos \in Positions |-> setTilePiece(s.tiles[pos], pos)])])))
       : s \in {pushUndo(s0, getSnapshot(s0))}})

\* (variant of previewChange) the snapshot pushed is the one taken after the flip
previewChange_noFlip(s0) ==
  The({saveState(pushUndo(s, getSnapshot(s)))
       : s \in {[s0 EXCEPT !.previewChecked = ~s0.previewChecked]}})

\* the checkbox has already flipped when its change handler runs
previewChange(s0) ==
  The({saveState(pushUndo(s, [getSnapshot(s) EXCEPT !.preview = ~s.previewChecked]))
       : s \in {[s0 EXCEPT !.previewChecked = ~s0.previewChecked]}})

edgeChange(s0) ==
  The({saveState(pushUndo(s, [getSnapshot(s) EXCEPT !.edges = ~s.edgeChecked]))
       : s \in {[s0 EXCEPT !.edgeChecked = ~s0.edgeChecked]}})

timerClick(s0) == The({IF ~s.timerRunning THEN s ELSE saveState(pauseTimer(s)) : s \in {s0}})

backClick(s0, rnd) ==
  The({IF s.currentImage <= 1 THEN s
       ELSE The({createBoard([s1 EXCEPT !.currentImage = Max(1, s1.currentImage - 1)], rnd)
                 : s1 \in {saveState(pushUndo(s, getSnapshot(s)))}})
       : s \in {s0}})

nextClick(s0, rnd) ==
  The({IF s.currentImage >= TOTAL_PUZZLES THEN s
       ELSE IF nextLocked(s) THEN s
       ELSE The({createBoard([s1 EXCEPT !.currentImage = Min(TOTAL_PUZZLES, s1.currentImage + 1)], rnd)
                 : s1 \in {saveState(pushUndo(s, getSnapshot(s)))}})
       : s \in {s0}})
\* (variant of resetClick) the relock path leaves the current puzzle number alone
resetClick_stay(s0, relock, rnd) ==
  The({IF ~relock
       THEN The({saveState(resetTimer(
                   [s EXCEPT !.previewChecked = FALSE, !.edgeChecked = FALSE,
                             !.tiles = updateJoins([pos \in Positions |->
                                                      setTilePiece(s.tiles[pos], fresh[pos])])],
                   FALSE))
                 : fresh \in {shuffleUntilNotSolved(pieceIndices, rnd)}})
       ELSE LET boards == DeleteBoards(ExistingBoards(s.localStorage), {"1", "2"})
                newState == [n |-> N, image |-> 1, unlocked2 |-> FALSE,
                             boards |-> boards, running |-> FALSE]
            IN createBoard([s EXCEPT !.unlocked2 = FALSE,
                                     !.localStorage = setItem(s.localStorage, newState),
                                     !.previewChecked = FALSE, !.edgeChecked = FALSE],
                           rnd)
       : s \in {pushUndo(s0, getSnapshot(s0))}})

\* resetBtn click; relock is e.altKey
resetClick(s0, relock, rnd) ==
  The({IF ~relock
       THEN The({saveState(resetTimer(
                   [s EXCEPT !.previewChecked = FALSE, !.edgeChecked = FALSE,
                             !.tiles = updateJoins([pos \in Positions |->
                                                      setTilePiece(s.tiles[pos], fresh[pos])])],
                   FALSE))
                 : fresh \in {shuffleUntilNotSolved(pieceIndices, rnd)}})
       ELSE LET boards == DeleteBoards(ExistingBoards(s.localStorage), {"1", "2"})
                newState == [n |-> N, image |-> 1, unlocked2 |-> FALSE,
                             boards |-> boards, running |-> FALSE]
            IN createBoard([s EXCEPT !.unlocked2 = FALSE,
                                     !.localStorage = setItem(s.localStorage, newState),
                                     !.currentImage = 1,
                                     !.previewChecked = FALSE, !.edgeChecked = FALSE],
                           rnd)
       : s \in {pushUndo(s0, getSnapshot(s0))}})

\* a page load: the script runs from its first line over the same localStorage
pageLoad(ls, pv, ed, rnd) == createBoard(FreshPage(ls, pv, ed), rnd)

\* ---- the state machine ----
VARIABLES tiles, undoStack, redoStack, timerRunning, currentImage,
          unlocked2, unlocked3, initialized, previewChecked, edgeChecked,
          dragSrc, touchOver, holdTimer, holdActive, pendingTile, detached,
          localStorage,
          steps, hist, before, left, rnd, takenOn

pageVars == <<tiles, undoStack, redoStack, timerRunning, currentImage,
              unlocked2, unlocked3, initialized, previewChecked, edgeChecked,
              dragSrc, touchOver, holdTimer, holdActive, pendingTile, detached,
              localStorage>>

vars == <<pageVars, steps, hist, before, left, rnd, takenOn>>

\* the current page as a record
Page ==
  [tiles |-> tiles, undoStack |-> undoStack, redoStack |-> redoStack,
   timerRunning |-> timerRunning, currentImage |-> currentImage,
   unlocked2 |-> unlocked2, unlocked3 |-> unlocked3, initialized |-> initialized,
   previewChecked |-> previewChecked, edgeChecked |-> edgeChecked,
   dragSrc |-> dragSrc, touchOver |-> touchOver, holdTimer |-> holdTimer,
   holdActive |-> holdActive, pendingTile |-> pendingTile, detached |-> detached,
   localStorage |-> localStorage]

\* the next page is t
Becomes(t) ==
  /\ tiles' = t.tiles
  /\ undoStack' = t.undoStack
  /\ redoStack' = t.redoStack
  /\ timerRunning' = t.timerRunning
  /\ currentImage' = t.currentImage
  /\ unlocked2' = t.unlocked2
  /\ unlocked3' = t.unlocked3
  /\ initialized' = t.initialized
  /\ previewChecked' = t.previewChecked
  /\ edgeChecked' = t.edgeChecked
  /\ dragSrc' = t.dragSrc
  /\ touchOver' = t.touchOver
  /\ holdTimer' = t.holdTimer
  /\ detached' = t.detached
  /\ holdActive' = t.holdActive
  /\ pendingTile' = t.pendingTile
  /\ localStorage' = t.localStorage

\* ---- observation (history variables, not state of the page) ----
\* The click handlers of Cheat and Reset and the change handlers of the two
\* checkboxes have no early return: every call runs pushUndo() and is a
\* step, even when the page ends as it began.  Any other handler that
\* leaves the page as it was (an early return; an assignment of the value
\* a variable already has) is a stuttering step.  Of the steps: steps counts
\* them; hist[1] names the last one and hist[2] the one before it; before
\* is what the page showed, and how long its undo stack was, when the last
\* one began, with the two elements it swapped when it is a drop.  "drop" names a committed drop: a
\* drop event that swaps, or a touchend that swaps; "touchend" names a
\* touchend that does not.
Shown(s) == [pieces |-> PiecesOf(s.tiles), preview |-> s.previewChecked, edges |-> s.edgeChecked]

NoPair == {}

Before(s, pair) == [shown |-> Shown(s), undoLen |-> Len(s.undoStack), pair |-> pair]

\* rnd: under SpecShuffle, the random stream handed to the last operation;
\* Spec does not record the streams and keeps it empty.
\* left[k]: what puzzle k showed when Back or Next last left it; forgotten
\* for the puzzles whose stored boards a relock reset deletes
LeftAfter(op, s, t) ==
  IF op \in {"back", "next"} /\ t.currentImage # s.currentImage
  THEN [k \in DOMAIN left \cup {s.currentImage} |-> IF k = s.currentImage THEN Shown(s) ELSE left[k]]
  ELSE IF op = "relock" THEN [k \in DOMAIN left \ {1, 2} |-> left[k]]
  ELSE left

\* takenOn.undo[i] (takenOn.redo[i]): the puzzle that was current when the
\* snapshot undoStack[i] (redoStack[i]) was captured by getSnapshot.  The
\* snapshots themselves carry no puzzle number.  The reload starts with
\* empty stacks; the events of a gesture that swap nothing and the clock
\* click leave the stacks alone; pushUndo runs in every other handler.
Silent == {"clock", "dragstart", "dragend", "touchstart", "hold", "touchmove", "touchend",
           "touchcancel"}

\* the handlers without an early return
Unconditional == {"cheat", "reset", "relock", "preview", "edges"}

TakenAfter(op, s) ==
  IF op = "reload" THEN [undo |-> <<>>, redo |-> <<>>]
  ELSE IF op = "undo"
    THEN [undo |-> Popped(takenOn.undo), redo |-> PushCapped(takenOn.redo, s.currentImage)]
  ELSE IF op = "redo"
    THEN [undo |-> PushCapped(takenOn.undo, s.currentImage), redo |-> Popped(takenOn.redo)]
  ELSE IF op \in Silent THEN takenOn
  ELSE [undo |-> PushCapped(takenOn.undo, s.currentImage), redo |-> <<>>]

StepWithin(bound, op, pair, result) ==
  /\ steps < bound
  /\ \E s \in {Page} : \E t \in {Collect(result)} :
       /\ (t # s \/ op \in Unconditional)
       /\ steps' = steps + 1
       /\ hist' = SubSeq(<<op>> \o hist, 1, Min(2, Len(hist) + 1))
       /\ before' = Before(s, pair)
       /\ left' = LeftAfter(op, s, t)
       /\ takenOn' = TakenAfter(op, s)
       /\ Becomes(t)

Step(op, pair, result) == StepWithin(MaxSteps, op, pair, result) /\ UNCHANGED rnd

\* ---- actions ----
\* mouse
DragStart == \E a \in LiveTiles : Step("dragstart", NoPair, onDragStart(Page, a))

Drop == \E b \in LiveTiles : Step("drop", {dragSrc, b}, onDrop(Page, b))

DragEnd == Step("dragend", NoPair, onDragEnd(Page))

\* touch
TouchStart == \E a \in LiveTiles \cup {NoTile} : Step("touchstart", NoPair, onTouchStart(Page, a))

HoldTimer == holdTimer # NoTile /\ Step("hold", NoPair, HoldTimerFires(Page))

TouchMove ==
  \E far \in BOOLEAN, over \in LiveTiles \cup {NoTile} :
    Step("touchmove", NoPair, onTouchMove(Page, far, over))

\* the touchend swaps: endTouchDrag(true) finds a source and a drop target
TouchCommits ==
  holdActive /\ dragSrc # NoTile /\ touchOver # NoTile /\ touchOver # dragSrc

TouchEnd ==
  IF TouchCommits THEN Step("drop", {dragSrc, touchOver}, onTouchEnd(Page))
  ELSE Step("touchend", NoPair, onTouchEnd(Page))

TouchCancel == Step("touchcancel", NoPair, onTouchCancel(Page))

Undo == Step("undo", NoPair, doUndo(Page))

Redo == Step("redo", NoPair, doRedo(Page))

Cheat == Step("cheat", NoPair, cheatClick(Page))

PreviewToggle == Step("preview", NoPair, previewChange(Page))

EdgeToggle == Step("edges", NoPair, edgeChange(Page))

ClockClick == Step("clock", NoPair, timerClick(Page))

Back == \E r \in GameStreams : Step("back", NoPair, backClick(Page, r))

Next_ == \E r \in GameStreams : Step("next", NoPair, nextClick(Page, r))

Reset == \E r \in GameStreams : Step("reset", NoPair, resetClick(Page, FALSE, r))

Relock == \E r \in GameStreams : Step("relock", NoPair, resetClick(Page, TRUE, r))

Reload ==
  \E pv \in BOOLEAN, ed \in BOOLEAN, r \in GameStreams :
    Step("reload", NoPair, pageLoad(localStorage, pv, ed, r))

\* the first load of the page, over empty storage, has produced page t:
\* the state once the script has run to its end
StartsAs(t) ==
  /\ tiles = t.tiles
  /\ undoStack = t.undoStack
  /\ redoStack = t.redoStack
  /\ timerRunning = t.timerRunning
  /\ currentImage = t.currentImage
  /\ unlocked2 = t.unlocked2
  /\ unlocked3 = t.unlocked3
  /\ initialized = t.initialized
  /\ previewChecked = t.previewChecked
  /\ edgeChecked = t.edgeChecked
  /\ dragSrc = t.dragSrc
  /\ touchOver = t.touchOver
  /\ holdTimer = t.holdTimer
  /\ detached = t.detached
  /\ holdActive = t.holdActive
  /\ pendingTile = t.pendingTile
  /\ localStorage = t.localStorage
  /\ steps = 0
  /\ hist = <<>>
  /\ before = [shown |-> [pieces |-> pieceIndices, preview |-> FALSE, edges |-> FALSE],
               undoLen |-> 0, pair |-> NoPair]
  /\ left = [k \in {} |-> 0]
  /\ takenOn = [undo |-> <<>>, redo |-> <<>>]

\* the first load of the page, over empty storage and unchecked checkboxes
Init ==
  /\ \E r \in GameStreams : StartsAs(pageLoad(EmptyStorage, FALSE, FALSE, r))
  /\ rnd = <<>>

Next ==
  \/ DragStart
  \/ Drop
  \/ DragEnd
  \/ TouchStart
  \/ HoldTimer
  \/ TouchMove
  \/ TouchEnd
  \/ TouchCancel
  \/ Undo
  \/ Redo
  \/ Cheat
  \/ PreviewToggle
  \/ EdgeToggle
  \/ ClockClick
  \/ Back
  \/ Next_
  \/ Reset
  \/ Relock
  \/ Reload

Spec == Init /\ [][Next]_vars

\* ---- the shuffle alone: the first board over every random stream, then
\* resets over the streams that retry ----
\* operations of one behaviour of SpecShuffle
MaxShuffles == 1

InitShuffle ==
  \E r \in AllStreams :
    /\ StartsAs(pageLoad(EmptyStorage, FALSE, FALSE, r))
    /\ rnd = r

ShuffleReset ==
  \E r \in RetryStreams :
    /\ StepWithin(MaxShuffles, "reset", NoPair, resetClick(Page, FALSE, r))
    /\ rnd' = r

ShuffleRelock ==
  \E r \in RetryStreams :
    /\ StepWithin(MaxShuffles, "relock", NoPair, resetClick(Page, TRUE, r))
    /\ rnd' = r

NextShuffle ==
  \/ ShuffleReset
  \/ ShuffleRelock

SpecShuffle == InitShuffle /\ [][NextShuffle]_vars

pieces == PiecesOf(tiles)

\* the last operation, "" before the first one
lastOp == IF hist = <<>> THEN "" ELSE hist[1]

\* this step is the operation named op
IsStep(op) == steps' = steps + 1 /\ hist'[1] = op

\* ---- C1 ----
\* C1: in every reachable state the pieces shown on the tiles form a
\* permutation of 0..total-1: every piece index is on exactly one tile.
PiecesArePermutation ==
  /\ DOMAIN tiles = Positions
  /\ \A p \in Positions : Cardinality({pos \in Positions : NumberOf(tiles[pos].piece) = p}) = 1

\* ---- C2 ----
\* C2: isSolved() is true exactly when every position pos shows piece pos.
SolvedIffEveryPieceInPlace ==
  isSolved(tiles) <=> (\A pos \in Positions : pieces[pos] = pos)

\* an unsolved board on which some tile already shows its own piece
SolvedWitness ==
  /\ ~isSolved(tiles)
  /\ \E pos \in Positions : pieces[pos] = pos
  /\ lastOp = "drop"

\* ---- C3 ----
\* C3: a committed drop, by mouse or by touch, swaps the tiles at two
\* different positions a and b of the board: it exchanges the pieces of a
\* and b and leaves the piece on every other position and the current
\* puzzle number unchanged; the unlock flags are unchanged unless the drop
\* leaves the board solved.
DropExchangesTwoPieces ==
  [][IsStep("drop") =>
       \E a \in Positions : \E b \in Positions \ {a} :
         /\ before'.pair = {Live(a), Live(b)}
         /\ pieces'[a] = pieces[b]
         /\ pieces'[b] = pieces[a]
         /\ \A c \in Positions \ {a, b} : pieces'[c] = pieces[c]
         /\ currentImage' = currentImage
         /\ ~isSolved(tiles') => (unlocked2' = unlocked2 /\ unlocked3' = unlocked3)]_vars

\* ---- C4 ----
\* the board on the tiles was generated by the last operation (or the load)
FreshBoard == lastOp \in {"", "reset", "relock"}

\* C4 as stated: every freshly generated board is unsolved, whatever the
\* random shuffle returns.
FreshBoardNeverSolved == FreshBoard => ~isSolved(tiles)

\* C4 (amended): a freshly generated board is a permutation, and it is the
\* solved arrangement exactly when every one of the BAIL_ATTEMPTS + 1
\* shuffles that shuffleUntilNotSolved ran left the array in order.
FreshBoardSolvedOnlyAfterBail ==
  FreshBoard =>
    /\ PiecesArePermutation
    /\ isSolved(tiles) <=>
         \A k \in 1 .. (BAIL_ATTEMPTS + 1) : IsIdentity(shuffleInPlace(pieceIndices, rnd[k]))

\* a reset whose shuffles all returned the array in order: the board is solved
BailWitness == lastOp = "reset" /\ isSolved(tiles)

\* ---- C5 ----
ShownNow == Shown(Page)

Undoable == {"drop", "reset", "cheat", "preview", "edges"}

\* C5: an undo that directly follows a swap, a normal reset, a cheat or a
\* toggle change restores the pieces and both toggles to what they were
\* when that operation began.
UndoRestoresBefore ==
  [][(IsStep("undo") /\ lastOp \in Undoable) => ShownNow' = before.shown]_vars

\* a toggle change has been undone
UndoWitness == hist = <<"undo", "preview">> /\ ~previewChecked

\* ---- C6 ----
\* C6: a redo that directly follows an undo restores the pieces and both
\* toggles to what they were before the undo, and the undo stack has again
\* the length it had before the undo.
RedoRestoresBeforeUndo ==
  [][(IsStep("redo") /\ lastOp = "undo") =>
       /\ ShownNow' = before.shown
       /\ Len(undoStack') = before.undoLen]_vars

\* an undo of a drop has been redone
RedoWitness == hist = <<"redo", "undo">> /\ Len(undoStack) > 0 /\ currentImage = 1

\* ---- C7 ----
Recording == {"drop", "reset", "relock", "cheat", "preview", "edges", "back", "next"}

RedoChangesNothing == doRedo(Page) = Page

\* an operation that records history empties the redo stack, and a redo
\* right after it changes nothing
RecordingEmptiesRedo ==
  [][(steps' = steps + 1 /\ hist'[1] \in Recording) =>
       (redoStack' = <<>> /\ RedoChangesNothing')]_vars

\* C7: an operation that records history (a committed swap, reset, cheat, a
\* toggle change, Back or Next) empties the redo stack, whatever it held,
\* and a redo right after it changes nothing; undo and redo do not empty
\* it: an undo keeps every entry of the redo stack and puts the snapshot of
\* the page it undid on top, and a redo takes off the one entry it
\* re-applies and keeps every other entry.
RedoStackPoppedByRedo ==
  /\ RecordingEmptiesRedo
  /\ [][IsStep("undo") => redoStack' = Append(redoStack, getSnapshot(Page))]_vars
  /\ [][IsStep("redo") =>
          /\ redoStack' = Popped(redoStack)
          /\ Len(redoStack') = Len(redoStack) - 1]_vars

\* two undos and a redo: the redo took one of two entries off the redo
\* stack and left the other
RedoKeptWitness ==
  hist = <<"redo", "undo">> /\ Len(redoStack) = 1 /\ Len(undoStack) = 1

\* ---- C8 ----
\* what a reload has to show again
Visible ==
  [image |-> currentImage, pieces |-> pieces, preview |-> previewChecked,
   edges |-> edgeChecked, unlocked2 |-> unlocked2, unlocked3 |-> unlocked3]

\* the stored state holds the current puzzle number, its board and toggles
\* and the unlock flags of the page
StoredIsCurrent ==
  /\ HasState(localStorage)
  /\ LET saved == loadState(localStorage)
         key == BoardKey(currentImage)
     IN /\ saved.n = N
        /\ saved.image = currentImage
        /\ SavedFlag(saved, "unlocked2") = unlocked2
        /\ SavedFlag(saved, "unlocked3") = unlocked3
        /\ key \in DOMAIN saved.boards
        /\ saved.boards[key].pieces = pieces
        /\ saved.boards[key].preview = previewChecked
        /\ saved.boards[key].edges = edgeChecked

\* C8: after every operation the stored state is that of the page, and a
\* reload shows the same puzzle number, pieces, toggles and unlock flags.
ReloadShowsSame ==
  /\ []StoredIsCurrent
  /\ [][IsStep("reload") => Visible' = Visible]_vars

\* a reload on puzzle 2 with the preview on
ReloadWitness == lastOp = "reload" /\ currentImage = 2 /\ previewChecked

\* ---- C9 ----
\* C9: a puzzle reached by Back or Next shows the pieces and toggles it had
\* when Back or Next last left it, unless a relock reset deleted its board
\* since.
ReturnShowsAsLeft ==
  (lastOp \in {"back", "next"} /\ currentImage \in DOMAIN left)
    => ShownNow = left[currentImage]

\* back on puzzle 1, which was left solved with the preview on
ReturnWitness ==
  /\ lastOp = "back"
  /\ currentImage = 1
  /\ 1 \in DOMAIN left
  /\ previewChecked
  /\ 2 \in DOMAIN left

\* ---- C10 ----
\* C10: the puzzle number is 1, 2 or 3; Next moves it up by one and only
\* past an unlocked step; Back moves it down by one; Next on puzzle 3 or on
\* a locked step and Back on puzzle 1 change nothing.
SteppedProgression ==
  /\ [](currentImage \in 1 .. TOTAL_PUZZLES)
  /\ [][IsStep("next") =>
          /\ currentImage' = currentImage + 1
          /\ currentImage = 1 => unlocked2
          /\ currentImage = 2 => unlocked3]_vars
  /\ [][IsStep("back") => currentImage' = currentImage - 1]_vars
  /\ [](\A r \in GameStreams :
          /\ (currentImage = TOTAL_PUZZLES \/ nextLocked(Page)) => nextClick(Page, r) = Page
          /\ currentImage = 1 => backClick(Page, r) = Page)

\* Next has moved from puzzle 2 to puzzle 3
ProgressionWitness == lastOp = "next" /\ currentImage = 3 /\ unlocked2 /\ unlocked3

\* ---- C11 ----
\* a drop that swapped two pieces
CommittedSwap == IsStep("drop") /\ pieces' # pieces

StoredUnlocks ==
  [unlocked2 |-> SavedFlag(loadState(localStorage), "unlocked2"),
   unlocked3 |-> SavedFlag(loadState(localStorage), "unlocked3")]

\* C11: a committed swap or a cheat that leaves the board solved unlocks the
\* next puzzle (unlocked2 on puzzle 1, unlocked3 on puzzle 2, nothing on
\* puzzle 3) and no other, leaves the timer paused and the unlock flags in
\* storage; a swap that leaves the board unsolved changes no unlock flag.
SolvingUnlocksNext ==
  /\ [][((CommittedSwap /\ isSolved(tiles')) \/ IsStep("cheat")) =>
          /\ isSolved(tiles')
          /\ unlocked2' = (unlocked2 \/ currentImage = 1)
          /\ unlocked3' = (unlocked3 \/ currentImage = 2)
          /\ ~timerRunning'
          /\ HasState(localStorage')
          /\ StoredUnlocks' = [unlocked2 |-> unlocked2', unlocked3 |-> unlocked3']]_vars
  /\ [][(CommittedSwap /\ ~isSolved(tiles')) =>
          (unlocked2' = unlocked2 /\ unlocked3' = unlocked3)]_vars

\* a swap has solved puzzle 2 right after its first visit
SolvingWitness ==
  /\ hist = <<"drop", "dragstart">>
  /\ currentImage = 2
  /\ isSolved(tiles)
  /\ unlocked3
  /\ ~timerRunning
  /\ before.shown.pieces # pieces

\* ---- C12 ----
\* C12: the current puzzle is one that has been unlocked: on puzzle 2 or 3
\* unlocked2 holds, on puzzle 3 unlocked3 holds, and unlocked3 implies
\* unlocked2.
CurrentPuzzleUnlocked ==
  /\ currentImage >= 2 => unlocked2
  /\ currentImage = 3 => unlocked3
  /\ unlocked3 => unlocked2

\* a relock on puzzle 2: both flags are down and puzzle 1 is current
RelockedWitness ==
  /\ hist = <<"relock", "next">>
  /\ currentImage = 1
  /\ ~unlocked2
  /\ ~unlocked3

\* ---- C13 ----
\* C13: an unlock flag that is true stays true through every operation but
\* the relock reset: swaps, cheat, undo, redo, normal reset, toggle changes,
\* clock clicks, Back, Next and reloads never lower unlocked2 or unlocked3.
UnlocksKeptButByRelock ==
  [][((unlocked2 /\ ~unlocked2') \/ (unlocked3 /\ ~unlocked3')) => IsStep("relock")]_vars

\* an unlock has survived a normal reset and a reload
UnlockKeptWitness ==
  /\ hist = <<"reload", "reset">>
  /\ unlocked2
  /\ currentImage = 1
  /\ ~isSolved(tiles)

\* ---- C14 ----
\* C14: whenever the board of the current puzzle k, k = 1 or 2, is solved,
\* puzzle k + 1 is unlocked (unlocked2 on puzzle 1, unlocked3 on puzzle 2).
SolvedImpliesNextUnlocked ==
  isSolved(tiles) =>
    /\ currentImage = 1 => unlocked2
    /\ currentImage = 2 => unlocked3

\* ---- C15 ----
\* the puzzle on which the snapshot on top of a stack was captured
TopOf(seq) == seq[Len(seq)]

\* one puzzle number is recorded for every snapshot on the stacks
TakenOnEverySnapshot ==
  /\ Len(takenOn.undo) = Len(undoStack)
  /\ Len(takenOn.redo) = Len(redoStack)

\* C15: an undo (a redo) applies a snapshot that was captured while the
\* puzzle that is current now was current, and stays on that puzzle: it
\* never puts on the current puzzle an arrangement captured on another one.
UndoRedoOnSamePuzzle ==
  /\ [][IsStep("undo") =>
          (TopOf(takenOn.undo) = currentImage /\ currentImage' = currentImage)]_vars
  /\ [][IsStep("redo") =>
          (TopOf(takenOn.redo) = currentImage /\ currentImage' = currentImage)]_vars

\* ---- C16 ----
\* C16: the timer is not running while the board is solved.
TimerStoppedWhileSolved == isSolved(tiles) => ~timerRunning

\* a cheat clicked while the timer was running
TimerStoppedWitness ==
  /\ lastOp = "cheat"
  /\ isSolved(tiles)
  /\ ~timerRunning
  /\ undoStack # <<>>
  /\ undoStack[Len(undoStack)].running

\* ---- C17 ----
UndoChangesNothing == doUndo(Page) = Page

StacksWithinLimit ==
  /\ Len(undoStack) <= HISTORY_LIMIT
  /\ Len(redoStack) <= HISTORY_LIMIT
  /\ undoStack = <<>> => UndoChangesNothing
  /\ redoStack = <<>> => RedoChangesNothing

\* C17: neither stack ever holds more than HISTORY_LIMIT snapshots; an
\* operation that records history pushes the snapshot of the page it
\* started from, and on a full undo stack the oldest snapshot is discarded
\* for it; an undo on an empty undo stack and a redo on an empty redo stack
\* change nothing.
HistoryCapped ==
  /\ []StacksWithinLimit
  /\ [][(steps' = steps + 1 /\ hist'[1] \in Recording) =>
          undoStack' = Append(IF Len(undoStack) = HISTORY_LIMIT THEN Tail(undoStack)
                                                                ELSE undoStack,
                              getSnapshot(Page))]_vars

\* a toggle change on a full undo stack: the oldest snapshot has gone
HistoryCappedWitness ==
  /\ hist = <<"preview", "drop">>
  /\ before.undoLen = HISTORY_LIMIT
  /\ Len(undoStack) = HISTORY_LIMIT

\* ---- C18 ----
InLastColumn(k) == k % N = N - 1

InLastRow(k) == k \div N = N - 1

\* C18: the join flags match the pieces shown.  A tile not in the last
\* column is joined to the right exactly when its piece p is not in the last
\* column of the image and the right neighbour shows p + 1; a tile not in
\* the last row is joined to the bottom exactly when p is not in the last
\* row of the image and the lower neighbour shows p + N; a tile is joined
\* to the left (top) exactly when its left (upper) neighbour is joined to
\* the right (bottom).
JoinsMatchPieces ==
  \A pos \in Positions :
    /\ ~InLastColumn(pos) =>
         (tiles[pos].joinRight <=>
            (~InLastColumn(pieces[pos]) /\ pieces[pos + 1] = pieces[pos] + 1))
    /\ ~InLastRow(pos) =>
         (tiles[pos].joinBottom <=>
            (~InLastRow(pieces[pos]) /\ pieces[pos + N] = pieces[pos] + N))
    /\ tiles[pos].joinLeft <=> (pos % N # 0 /\ tiles[pos - 1].joinRight)
    /\ tiles[pos].joinTop <=> (pos \div N # 0 /\ tiles[pos - N].joinBottom)

\* after a swap: a tile joined to the one below it, and a tile whose right
\* neighbour shows the next piece, which starts the next row of the image
JoinsWitness ==
  /\ lastOp = "drop"
  /\ ~isSolved(tiles)
  /\ \E pos \in Positions : tiles[pos].joinBottom
  /\ \E pos \in Positions :
       /\ ~InLastColumn(pos)
       /\ pieces[pos + 1] = pieces[pos] + 1
       /\ ~tiles[pos].joinRight

====
